---- MODULE Spec2Model ----
(***************************************************************************)
(* A model of src/fetch_info.py: the aggregation of a user's public        *)
(* repository statistics over the responses of the hosting platform's API. *)
(*                                                                         *)
(* Python dicts (dict, Counter, defaultdict) keep insertion order; they    *)
(* are modelled as sequences of <<key, value>> pairs with distinct keys.   *)
(* A call to the API that may raise is modelled by a record                *)
(* [raises, value]: the outcome the repository object gives to the call.   *)
(***************************************************************************)
EXTENDS Integers, Sequences, FiniteSets, TLC

VARIABLES
    pc,                    \* position of the running function
    config,                \* the module-level config loaded from config.json
    api_repos,             \* what g.get_user().get_repos(type="public") yields
    repos,                 \* the list of repos (get_repos' result / the argument)
    owned_repo_names,      \* the set of full names used to classify results
    i,                     \* fetch_stats: index of the repo the loop is at
    total_commits_in_own_repos,
    total_issues_in_own_repos,
    total_prs_in_own_repos,
    pr_search_results,     \* what g.search_issues("author:.. is:pr") yields
    issue_search_results,  \* what g.search_issues("author:.. is:issue") yields
    pr_contribs,           \* get_pr_contributions' result
    issue_contribs,        \* get_issue_contributions' result
    languages,             \* get_languages_from_repos' result / the argument
    sorted_lang,           \* format_languages: the local list that is printed
    languages_pretty,      \* format_languages' result
    total_stars,
    bytes_of_code,         \* get_bytes_of_code_from_repos' result
    exc                    \* the exception that left the function, or "none"

vars == <<pc, config, api_repos, repos, owned_repo_names, i,
          total_commits_in_own_repos, total_issues_in_own_repos,
          total_prs_in_own_repos, pr_search_results, issue_search_results,
          pr_contribs, issue_contribs, languages, sorted_lang,
          languages_pretty, total_stars, bytes_of_code, exc>>

-----------------------------------------------------------------------------
(* Bounds of the model.                                                    *)

MaxRepos == 2          \* longest list of repos
MaxResults == 3        \* longest list of search results
MaxLangs == 3          \* most languages in the mapping given to format_languages

Min(a, b) == IF a <= b THEN a ELSE b
Max(a, b) == IF a >= b THEN a ELSE b

SeqsUpTo(S, n) == UNION {[1..m -> S] : m \in 0..n}

-----------------------------------------------------------------------------
(* Python dicts as insertion-ordered sequences of <<key, value>> pairs.    *)

EmptyDict == <<>>

DictKeys(d) == {d[j][1] : j \in DOMAIN d}

\* d[k] of a Counter / defaultdict(int): 0 when the key is missing.
DictGet(d, k) ==
    IF k \in DictKeys(d)
        THEN LET j == CHOOSE j \in DOMAIN d : d[j][1] = k IN d[j][2]
        ELSE 0

\* d[k] += n of a Counter / defaultdict(int): a new key goes last.
DictInc(d, k, n) ==
    IF k \in DictKeys(d)
        THEN [j \in DOMAIN d |-> IF d[j][1] = k THEN <<k, d[j][2] + n>> ELSE d[j]]
        ELSE Append(d, <<k, n>>)

\* sum(d.values())
RECURSIVE SumValues(_)
SumValues(d) ==
    IF d = <<>> THEN 0 ELSE d[1][2] + SumValues(Tail(d))

\* config.get(key, default)
ConfigGet(key, default) ==
    IF key \in DOMAIN config THEN config[key] ELSE default

-----------------------------------------------------------------------------
(* get_repos                                                               *)

\* the repos the first comprehension keeps
PublicOnly(rs) == SelectSeq(rs, LAMBDA r : r.visibility = "public")

\* the repos the second comprehension keeps
NotOrganization(rs) == SelectSeq(rs, LAMBDA r : r.owner_type # "Organization")

get_repos_KeepsOrgs(api) == PublicOnly(api)

get_repos(api) ==
    LET exclude_organizations == ConfigGet("exclude_organizations", TRUE)
        public == PublicOnly(api)
    IN  IF exclude_organizations THEN NotOrganization(public) ELSE public

-----------------------------------------------------------------------------
(* get_bytes_of_code_from_repos                                            *)

RECURSIVE bytes_StopsAtRaise(_)
bytes_StopsAtRaise(rs) ==
    IF rs = <<>> THEN 0
    ELSE IF rs[1].languages.raises THEN 0
    ELSE SumValues(rs[1].languages.value) + bytes_StopsAtRaise(Tail(rs))

RECURSIVE get_bytes_of_code_from_repos(_)
get_bytes_of_code_from_repos(rs) ==
    IF rs = <<>> THEN 0
    ELSE IF rs[1].languages.raises
        THEN get_bytes_of_code_from_repos(Tail(rs))
        ELSE SumValues(rs[1].languages.value)
                 + get_bytes_of_code_from_repos(Tail(rs))

-----------------------------------------------------------------------------
(* get_languages_from_repos                                                *)

\* the inner loop: languages[lang] += bytes_count for every item
RECURSIVE AddLanguages(_, _)
AddLanguages(acc, items) ==
    IF items = <<>> THEN acc
    ELSE AddLanguages(DictInc(acc, items[1][1], items[1][2]), Tail(items))

RECURSIVE LanguagesLoop(_, _)
LanguagesLoop(acc, rs) ==
    IF rs = <<>> THEN acc
    ELSE LET repo == rs[1] IN
         IF repo.fork \/ repo.visibility # "public"
             THEN LanguagesLoop(acc, Tail(rs))
         ELSE IF repo.languages.raises
             THEN LanguagesLoop(acc, Tail(rs))
         ELSE LanguagesLoop(AddLanguages(acc, repo.languages.value), Tail(rs))

RECURSIVE LanguagesLoop_CountsForks(_, _)
LanguagesLoop_CountsForks(acc, rs) ==
    IF rs = <<>> THEN acc
    ELSE LET repo == rs[1] IN
         IF repo.visibility # "public"
             THEN LanguagesLoop_CountsForks(acc, Tail(rs))
         ELSE IF repo.languages.raises
             THEN LanguagesLoop_CountsForks(acc, Tail(rs))
         ELSE LanguagesLoop_CountsForks(
                  AddLanguages(acc, repo.languages.value), Tail(rs))

languages_CountsForks(rs) == LanguagesLoop_CountsForks(EmptyDict, rs)

get_languages_from_repos(rs) == LanguagesLoop(EmptyDict, rs)

-----------------------------------------------------------------------------
(* format_languages                                                        *)

\* One step of sorted(..., key=lambda x: x[1], reverse=True): x goes after
\* every item already placed whose byte count is at least its own, so that
\* items with equal counts keep the order they had in the mapping.
InsertByBytes(placed, x) ==
    LET n == Cardinality({j \in DOMAIN placed : placed[j][2] >= x[2]})
    IN  SubSeq(placed, 1, n) \o <<x>> \o SubSeq(placed, n + 1, Len(placed))

RECURSIVE SortLoop(_, _)
SortLoop(placed, items) ==
    IF items = <<>> THEN placed
    ELSE SortLoop(InsertByBytes(placed, items[1]), Tail(items))

SortedByBytes_Ascending(items) ==
    LET desc == SortLoop(<<>>, items)
    IN  [j \in DOMAIN desc |-> desc[Len(desc) + 1 - j]]

SortedByBytes(items) == SortLoop(<<>>, items)

\* s[:k] of a Python list, for any integer k
SliceTo(s, k) ==
    IF k >= 0 THEN SubSeq(s, 1, Min(k, Len(s)))
    ELSE SubSeq(s, 1, Max(Len(s) + k, 0))

\* the local sorted_lang when the function reaches "if not sorted_lang"
SortedLang(langs) ==
    LET all == SortedByBytes(langs)
        max_languages == ConfigGet("max_languages", -1)
    IN  IF max_languages # -1 THEN SliceTo(all, max_languages) ELSE all

\* f"- {lang}: {bytes_count} bytes of code"
LanguageLine(item) ==
    "- " \o item[1] \o ": " \o ToString(item[2]) \o " bytes of code"

\* "\n".join(lines)
RECURSIVE JoinLines(_)
JoinLines(lines) ==
    IF lines = <<>> THEN ""
    ELSE IF Len(lines) = 1 THEN lines[1]
    ELSE lines[1] \o "\n" \o JoinLines(Tail(lines))

format_languages(langs) ==
    LET sl == SortedLang(langs)
        lines == [j \in DOMAIN sl |-> LanguageLine(sl[j])]
    IN  IF sl = <<>> THEN "" ELSE "\n" \o JoinLines(lines)

-----------------------------------------------------------------------------
(* get_pr_contributions and get_issue_contributions                        *)

\* {name: count for name, count in by_repo.items() if name in owned}
OwnItems(by_repo, owned) == SelectSeq(by_repo, LAMBDA kv : kv[1] \in owned)

ExternalItems_Unfiltered(by_repo, owned) == by_repo

\* {name: count for name, count in by_repo.items() if name not in owned}
ExternalItems(by_repo, owned) == SelectSeq(by_repo, LAMBDA kv : kv[1] \notin owned)

RECURSIVE PrLoop(_, _)
PrLoop(by_repo, results) ==
    IF results = <<>> THEN by_repo
    ELSE PrLoop(DictInc(by_repo, results[1].repo_full_name, 1), Tail(results))

get_pr_contributions(results, owned) ==
    LET by_repo == PrLoop(EmptyDict, results)
    IN  [total_prs      |-> SumValues(by_repo),
         by_repo        |-> by_repo,
         own_repos      |-> OwnItems(by_repo, owned),
         external_repos |-> ExternalItems(by_repo, owned)]

\* getattr(issue, "pull_request", None) is not None
IsPullRequest(issue) == issue.pull_request \notin {"absent", "None"}

RECURSIVE IssueLoop_CountsPRs(_, _)
IssueLoop_CountsPRs(by_repo, results) ==
    IF results = <<>> THEN by_repo
    ELSE IssueLoop_CountsPRs(
             DictInc(by_repo, results[1].repo_full_name, 1), Tail(results))

RECURSIVE IssueLoop(_, _)
IssueLoop(by_repo, results) ==
    IF results = <<>> THEN by_repo
    ELSE IF IsPullRequest(results[1])
        THEN IssueLoop(by_repo, Tail(results))
        ELSE IssueLoop(DictInc(by_repo, results[1].repo_full_name, 1), Tail(results))

get_issue_contributions(results, owned) ==
    LET by_repo == IssueLoop(EmptyDict, results)
    IN  [total_issues   |-> SumValues(by_repo),
         by_repo        |-> by_repo,
         own_repos      |-> OwnItems(by_repo, owned),
         external_repos |-> ExternalItems(by_repo, owned)]

-----------------------------------------------------------------------------
(* The values the API can hand to the program, within the bounds.          *)

\* the outcome of a call on a repo object: it raises, or it returns value
Raises == [raises |-> TRUE, value |-> 0]
Returns(v) == [raises |-> FALSE, value |-> v]

\* full names: the i-th repo the API yields, and a repo of somebody else
RepoName(j) == "me/r" \o ToString(j)
ExternalName == "other/x"
SearchNames == {RepoName(1), RepoName(2), ExternalName}

\* a public, user-owned repo that is no fork and whose calls all succeed;
\* languages holds get_languages(), and commits, issues and pulls hold the
\* totalCount of get_commits(), get_issues() and get_pulls()
PlainRepo ==
    [full_name        |-> RepoName(0),
     visibility       |-> "public",
     owner_type       |-> "User",
     fork             |-> FALSE,
     stargazers_count |-> 1,
     languages        |-> Returns(<<<<"Python", 2>>, <<"C", 1>>>>),
     commits          |-> Returns(1),
     issues           |-> Returns(1),
     pulls            |-> Returns(1)]

\* lists of at most n repos drawn from D, the j-th one named RepoName(j)
RepoLists(D, n) ==
    UNION {{[j \in 1..m |-> [s[j] EXCEPT !.full_name = RepoName(j)]] :
               s \in [1..m -> D]} : m \in 0..n}

\* what get_repos can be given
ApiRepoKinds ==
    {[PlainRepo EXCEPT !.visibility = v, !.owner_type = o, !.fork = f] :
        v \in {"public", "private"}, o \in {"User", "Organization"},
        f \in BOOLEAN}

\* what get_languages() can answer
LanguageReports ==
    {Raises, Returns(<<>>), Returns(<<<<"Python", 1>>>>),
     Returns(<<<<"Python", 2>>, <<"C", 1>>>>), Returns(<<<<"C", 3>>>>)}

\* what get_languages_from_repos and get_bytes_of_code_from_repos can be given
LanguageRepoKinds ==
    {[PlainRepo EXCEPT !.visibility = v, !.fork = f, !.languages = l] :
        v \in {"public", "private"}, f \in BOOLEAN, l \in LanguageReports}

\* what fetch_stats can meet: a repo differs from PlainRepo in one respect
FetchRepoKinds ==
    {PlainRepo,
     [PlainRepo EXCEPT !.visibility = "private"],
     [PlainRepo EXCEPT !.owner_type = "Organization"],
     [PlainRepo EXCEPT !.fork = TRUE, !.stargazers_count = 2,
                       !.languages = Returns(<<<<"Go", 4>>>>)],
     [PlainRepo EXCEPT !.commits = Raises],
     [PlainRepo EXCEPT !.issues = Raises],
     [PlainRepo EXCEPT !.pulls = Raises],
     [PlainRepo EXCEPT !.languages = Raises]}

\* config.json: each key is absent or holds one of these values
NoConfig == [k \in {} |-> 0]
ExcludeOptions ==
    {NoConfig, [exclude_organizations |-> TRUE], [exclude_organizations |-> FALSE]}
MaxLanguagesOptions ==
    {NoConfig} \cup {[max_languages |-> k] : k \in {-2, -1, 0, 1, 2, 5}}

\* the mappings format_languages can be given: distinct languages, in any order
LanguageNames == {"Python", "C", "Go", "Rust"}
ByteCounts == {1, 2}
LanguageDicts ==
    {d \in SeqsUpTo(LanguageNames \X ByteCounts, MaxLangs) :
        \A a, b \in DOMAIN d : a # b => d[a][1] # d[b][1]}

\* an item of a search result; pull_request is absent, None or an object
SearchItem(name, pr) == [repo_full_name |-> name, pull_request |-> pr]
PrItems == {SearchItem(n, "PullRequest") : n \in SearchNames}
IssueItems ==
    {SearchItem(n, p) : n \in SearchNames, p \in {"absent", "None", "PullRequest"}}

\* the search results fetch_stats can meet
FetchPrResults ==
    {<<>>,
     <<SearchItem(RepoName(1), "PullRequest"), SearchItem(ExternalName, "PullRequest"),
       SearchItem(RepoName(1), "PullRequest")>>}
FetchIssueResults ==
    {<<>>,
     <<SearchItem(RepoName(2), "None"), SearchItem(RepoName(2), "PullRequest"),
       SearchItem(ExternalName, "absent")>>}

-----------------------------------------------------------------------------
(* The initial states: a client is about to call one of the functions.     *)

InitVars(p, c, api, rs, owned, prs, iss, langs) ==
    /\ pc = p
    /\ config = c
    /\ api_repos = api
    /\ repos = rs
    /\ owned_repo_names = owned
    /\ i = 0
    /\ total_commits_in_own_repos = 0
    /\ total_issues_in_own_repos = 0
    /\ total_prs_in_own_repos = 0
    /\ pr_search_results = prs
    /\ issue_search_results = iss
    /\ pr_contribs = <<>>
    /\ issue_contribs = <<>>
    /\ languages = langs
    /\ sorted_lang = <<>>
    /\ languages_pretty = ""
    /\ total_stars = 0
    /\ bytes_of_code = 0
    /\ exc = "none"

InitGetRepos ==
    \E c \in ExcludeOptions, api \in RepoLists(ApiRepoKinds, MaxRepos) :
        InitVars("call get_repos", c, api, <<>>, {}, <<>>, <<>>, <<>>)

InitRepoFunctions ==
    \E p \in {"call get_bytes_of_code_from_repos", "call get_languages_from_repos"},
       rs \in RepoLists(LanguageRepoKinds, MaxRepos) :
        InitVars(p, NoConfig, <<>>, rs, {}, <<>>, <<>>, <<>>)

InitFormatLanguages ==
    \E c \in MaxLanguagesOptions, langs \in LanguageDicts :
        InitVars("call format_languages", c, <<>>, <<>>, {}, <<>>, <<>>, langs)

InitPrContributions ==
    \E owned \in SUBSET SearchNames, rs \in SeqsUpTo(PrItems, MaxResults) :
        InitVars("call get_pr_contributions", NoConfig, <<>>, <<>>, owned, rs, <<>>, <<>>)

InitIssueContributions ==
    \E owned \in SUBSET SearchNames, rs \in SeqsUpTo(IssueItems, MaxResults) :
        InitVars("call get_issue_contributions", NoConfig, <<>>, <<>>, owned, <<>>, rs, <<>>)

InitFetchStats ==
    \E c \in ExcludeOptions, api \in RepoLists(FetchRepoKinds, MaxRepos) :
        InitVars("call fetch_stats", c, api, <<>>, {}, <<>>, <<>>, <<>>)

Init ==
    \/ InitGetRepos
    \/ InitRepoFunctions
    \/ InitFormatLanguages
    \/ InitPrContributions
    \/ InitIssueContributions
    \/ InitFetchStats

-----------------------------------------------------------------------------
(* The functions called on their own: one action runs the whole function.  *)

CallGetRepos ==
    /\ pc = "call get_repos"
    /\ repos' = get_repos(api_repos)
    /\ pc' = "return get_repos"
    /\ UNCHANGED <<config, api_repos, owned_repo_names, i,
                   total_commits_in_own_repos, total_issues_in_own_repos,
                   total_prs_in_own_repos, pr_search_results,
                   issue_search_results, pr_contribs, issue_contribs, languages,
                   sorted_lang, languages_pretty, total_stars, bytes_of_code, exc>>

CallGetBytesOfCode ==
    /\ pc = "call get_bytes_of_code_from_repos"
    /\ bytes_of_code' = get_bytes_of_code_from_repos(repos)
    /\ pc' = "return get_bytes_of_code_from_repos"
    /\ UNCHANGED <<config, api_repos, repos, owned_repo_names, i,
                   total_commits_in_own_repos, total_issues_in_own_repos,
                   total_prs_in_own_repos, pr_search_results,
                   issue_search_results, pr_contribs, issue_contribs, languages,
                   sorted_lang, languages_pretty, total_stars, exc>>

CallGetLanguages ==
    /\ pc = "call get_languages_from_repos"
    /\ languages' = get_languages_from_repos(repos)
    /\ pc' = "return get_languages_from_repos"
    /\ UNCHANGED <<config, api_repos, repos, owned_repo_names, i,
                   total_commits_in_own_repos, total_issues_in_own_repos,
                   total_prs_in_own_repos, pr_search_results,
                   issue_search_results, pr_contribs, issue_contribs,
                   sorted_lang, languages_pretty, total_stars, bytes_of_code, exc>>

CallFormatLanguages ==
    /\ pc = "call format_languages"
    /\ sorted_lang' = SortedLang(languages)
    /\ languages_pretty' = format_languages(languages)
    /\ pc' = "return format_languages"
    /\ UNCHANGED <<config, api_repos, repos, owned_repo_names, i,
                   total_commits_in_own_repos, total_issues_in_own_repos,
                   total_prs_in_own_repos, pr_search_results,
                   issue_search_results, pr_contribs, issue_contribs, languages,
                   total_stars, bytes_of_code, exc>>

CallGetPrContributions ==
    /\ pc = "call get_pr_contributions"
    /\ pr_contribs' = get_pr_contributions(pr_search_results, owned_repo_names)
    /\ pc' = "return get_pr_contributions"
    /\ UNCHANGED <<config, api_repos, repos, owned_repo_names, i,
                   total_commits_in_own_repos, total_issues_in_own_repos,
                   total_prs_in_own_repos, pr_search_results,
                   issue_search_results, issue_contribs, languages,
                   sorted_lang, languages_pretty, total_stars, bytes_of_code, exc>>

CallGetIssueContributions ==
    /\ pc = "call get_issue_contributions"
    /\ issue_contribs' =
           get_issue_contributions(issue_search_results, owned_repo_names)
    /\ pc' = "return get_issue_contributions"
    /\ UNCHANGED <<config, api_repos, repos, owned_repo_names, i,
                   total_commits_in_own_repos, total_issues_in_own_repos,
                   total_prs_in_own_repos, pr_search_results,
                   issue_search_results, pr_contribs, languages,
                   sorted_lang, languages_pretty, total_stars, bytes_of_code, exc>>

-----------------------------------------------------------------------------
(* fetch_stats, statement by statement.  A call of the API outside a try   *)
(* block either succeeds or raises, and then the exception leaves          *)
(* fetch_stats.                                                            *)

\* {repo.full_name for repo in repos}
FullNames(rs) == {rs[j].full_name : j \in DOMAIN rs}

\* sum(repo.stargazers_count for repo in repos)
RECURSIVE SumStars(_)
SumStars(rs) ==
    IF rs = <<>> THEN 0 ELSE rs[1].stargazers_count + SumStars(Tail(rs))

Propagate(e) ==
    /\ pc' = "raised"
    /\ exc' = e

\* user = g.get_user(); repos = get_repos(g); owned_repo_names = {...}
FetchGetRepos ==
    /\ pc = "call fetch_stats"
    /\ \E failure \in {"none", "get_user", "get_repos"} :
          IF failure # "none"
              THEN /\ Propagate(failure)
                   /\ UNCHANGED <<repos, owned_repo_names, i>>
              ELSE /\ repos' = get_repos(api_repos)
                   /\ owned_repo_names' = FullNames(repos')
                   /\ i' = 1
                   /\ pc' = "for repo in repos"
                   /\ exc' = exc
    /\ UNCHANGED <<config, api_repos,
                   total_commits_in_own_repos, total_issues_in_own_repos,
                   total_prs_in_own_repos, pr_search_results,
                   issue_search_results, pr_contribs, issue_contribs, languages,
                   sorted_lang, languages_pretty, total_stars, bytes_of_code>>

FetchLoop_CountsForks ==
    /\ pc = "for repo in repos"
    /\ IF i > Len(repos)
           THEN /\ pc' = "pr_contribs"
                /\ i' = i
           ELSE /\ pc' = "get_commits"
                /\ i' = i
    /\ UNCHANGED <<config, api_repos, repos, owned_repo_names,
                   total_commits_in_own_repos, total_issues_in_own_repos,
                   total_prs_in_own_repos, pr_search_results,
                   issue_search_results, pr_contribs, issue_contribs, languages,
                   sorted_lang, languages_pretty, total_stars, bytes_of_code, exc>>

\* the head of the loop and the test "if repo.fork or repo.visibility != public"
FetchLoop ==
    /\ pc = "for repo in repos"
    /\ IF i > Len(repos)
           THEN /\ pc' = "pr_contribs"
                /\ i' = i
           ELSE IF repos[i].fork \/ repos[i].visibility # "public"
               THEN /\ pc' = pc
                    /\ i' = i + 1
               ELSE /\ pc' = "get_commits"
                    /\ i' = i
    /\ UNCHANGED <<config, api_repos, repos, owned_repo_names,
                   total_commits_in_own_repos, total_issues_in_own_repos,
                   total_prs_in_own_repos, pr_search_results,
                   issue_search_results, pr_contribs, issue_contribs, languages,
                   sorted_lang, languages_pretty, total_stars, bytes_of_code, exc>>

\* except Exception: continue
ExceptContinue ==
    /\ pc' = "for repo in repos"
    /\ i' = i + 1

FetchGetCommits_NoExcept ==
    /\ pc = "get_commits"
    /\ IF repos[i].commits.raises
           THEN /\ Propagate("get_commits")
                /\ UNCHANGED <<i, total_commits_in_own_repos>>
           ELSE /\ total_commits_in_own_repos' =
                       total_commits_in_own_repos + repos[i].commits.value
                /\ pc' = "get_issues"
                /\ UNCHANGED <<i, exc>>
    /\ UNCHANGED <<config, api_repos, repos, owned_repo_names,
                   total_issues_in_own_repos,
                   total_prs_in_own_repos, pr_search_results,
                   issue_search_results, pr_contribs, issue_contribs, languages,
                   sorted_lang, languages_pretty, total_stars, bytes_of_code>>

\* total_commits_in_own_repos += repo.get_commits(author=user).totalCount
FetchGetCommits ==
    /\ pc = "get_commits"
    /\ IF repos[i].commits.raises
           THEN /\ ExceptContinue
                /\ UNCHANGED total_commits_in_own_repos
           ELSE /\ total_commits_in_own_repos' =
                       total_commits_in_own_repos + repos[i].commits.value
                /\ pc' = "get_issues"
                /\ i' = i
    /\ UNCHANGED <<config, api_repos, repos, owned_repo_names,
                   total_issues_in_own_repos,
                   total_prs_in_own_repos, pr_search_results,
                   issue_search_results, pr_contribs, issue_contribs, languages,
                   sorted_lang, languages_pretty, total_stars, bytes_of_code, exc>>

\* total_issues_in_own_repos += repo.get_issues(creator=user.login).totalCount
FetchGetIssues ==
    /\ pc = "get_issues"
    /\ IF repos[i].issues.raises
           THEN /\ ExceptContinue
                /\ UNCHANGED total_issues_in_own_repos
           ELSE /\ total_issues_in_own_repos' =
                       total_issues_in_own_repos + repos[i].issues.value
                /\ pc' = "get_pulls"
                /\ i' = i
    /\ UNCHANGED <<config, api_repos, repos, owned_repo_names,
                   total_commits_in_own_repos,
                   total_prs_in_own_repos, pr_search_results,
                   issue_search_results, pr_contribs, issue_contribs, languages,
                   sorted_lang, languages_pretty, total_stars, bytes_of_code, exc>>

\* total_prs_in_own_repos += repo.get_pulls(state="all").totalCount
FetchGetPulls ==
    /\ pc = "get_pulls"
    /\ IF repos[i].pulls.raises
           THEN /\ ExceptContinue
                /\ UNCHANGED total_prs_in_own_repos
           ELSE /\ total_prs_in_own_repos' =
                       total_prs_in_own_repos + repos[i].pulls.value
                /\ pc' = "for repo in repos"
                /\ i' = i + 1
    /\ UNCHANGED <<config, api_repos, repos, owned_repo_names,
                   total_commits_in_own_repos, total_issues_in_own_repos,
                   pr_search_results,
                   issue_search_results, pr_contribs, issue_contribs, languages,
                   sorted_lang, languages_pretty, total_stars, bytes_of_code, exc>>

\* pr_contribs = get_pr_contributions(g, user.login, owned_repo_names)
FetchPrContributions ==
    /\ pc = "pr_contribs"
    /\ \E failed \in BOOLEAN, results \in FetchPrResults :
          IF failed
              THEN /\ results = <<>>
                   /\ Propagate("search_issues")
                   /\ UNCHANGED <<pr_search_results, pr_contribs>>
              ELSE /\ pr_search_results' = results
                   /\ pr_contribs' = get_pr_contributions(results, owned_repo_names)
                   /\ pc' = "issue_contribs"
                   /\ exc' = exc
    /\ UNCHANGED <<config, api_repos, repos, owned_repo_names, i,
                   total_commits_in_own_repos, total_issues_in_own_repos,
                   total_prs_in_own_repos,
                   issue_search_results, issue_contribs, languages,
                   sorted_lang, languages_pretty, total_stars, bytes_of_code>>

\* issue_contribs = get_issue_contributions(g, user.login, owned_repo_names)
FetchIssueContributions ==
    /\ pc = "issue_contribs"
    /\ \E failed \in BOOLEAN, results \in FetchIssueResults :
          IF failed
              THEN /\ results = <<>>
                   /\ Propagate("search_issues")
                   /\ UNCHANGED <<issue_search_results, issue_contribs>>
              ELSE /\ issue_search_results' = results
                   /\ issue_contribs' =
                          get_issue_contributions(results, owned_repo_names)
                   /\ pc' = "languages"
                   /\ exc' = exc
    /\ UNCHANGED <<config, api_repos, repos, owned_repo_names, i,
                   total_commits_in_own_repos, total_issues_in_own_repos,
                   total_prs_in_own_repos,
                   pr_search_results, pr_contribs, languages,
                   sorted_lang, languages_pretty, total_stars, bytes_of_code>>

\* languages = get_languages_from_repos(repos)
FetchLanguages ==
    /\ pc = "languages"
    /\ languages' = get_languages_from_repos(repos)
    /\ pc' = "bytes_of_code"
    /\ UNCHANGED <<config, api_repos, repos, owned_repo_names, i,
                   total_commits_in_own_repos, total_issues_in_own_repos,
                   total_prs_in_own_repos, pr_search_results,
                   issue_search_results, pr_contribs, issue_contribs,
                   sorted_lang, languages_pretty, total_stars, bytes_of_code, exc>>

\* "total_stars": sum(...), "bytes_of_code": get_bytes_of_code_from_repos(repos)
FetchStarsAndBytes ==
    /\ pc = "bytes_of_code"
    /\ total_stars' = SumStars(repos)
    /\ bytes_of_code' = get_bytes_of_code_from_repos(repos)
    /\ pc' = "languages_pretty"
    /\ UNCHANGED <<config, api_repos, repos, owned_repo_names, i,
                   total_commits_in_own_repos, total_issues_in_own_repos,
                   total_prs_in_own_repos, pr_search_results,
                   issue_search_results, pr_contribs, issue_contribs, languages,
                   sorted_lang, languages_pretty, exc>>

\* "languages_pretty": format_languages(languages), and the return
FetchFormatAndReturn ==
    /\ pc = "languages_pretty"
    /\ sorted_lang' = SortedLang(languages)
    /\ languages_pretty' = format_languages(languages)
    /\ pc' = "return fetch_stats"
    /\ UNCHANGED <<config, api_repos, repos, owned_repo_names, i,
                   total_commits_in_own_repos, total_issues_in_own_repos,
                   total_prs_in_own_repos, pr_search_results,
                   issue_search_results, pr_contribs, issue_contribs, languages,
                   total_stars, bytes_of_code, exc>>

\* the statements of fetch_stats
FetchNext ==
    \/ FetchGetRepos
    \/ FetchLoop
    \/ FetchGetCommits
    \/ FetchGetIssues
    \/ FetchGetPulls
    \/ FetchPrContributions
    \/ FetchIssueContributions
    \/ FetchLanguages
    \/ FetchStarsAndBytes
    \/ FetchFormatAndReturn

Next ==
    \/ CallGetRepos
    \/ CallGetBytesOfCode
    \/ CallGetLanguages
    \/ CallFormatLanguages
    \/ CallGetPrContributions
    \/ CallGetIssueContributions
    \/ FetchNext

\* any function of the module, called by a client
Spec == Init /\ [][Next]_vars

\* a call of fetch_stats; the program is sequential, so a function that has
\* a next statement runs it
FetchStatsSpec == InitFetchStats /\ [][FetchNext]_vars /\ WF_vars(FetchNext)

-----------------------------------------------------------------------------
(* Where the results stand.                                                *)

AfterLoop ==
    {"pr_contribs", "issue_contribs", "languages", "bytes_of_code",
     "languages_pretty", "return fetch_stats"}

ReposReturned ==
    \/ pc = "return get_repos"
    \/ pc \in {"for repo in repos", "get_commits", "get_issues", "get_pulls"} \cup AfterLoop
    \/ pc = "raised" /\ exc = "search_issues"

PrContributionsReturned ==
    pc \in {"return get_pr_contributions", "issue_contribs", "languages",
            "bytes_of_code", "languages_pretty", "return fetch_stats"}

IssueContributionsReturned ==
    pc \in {"return get_issue_contributions", "languages", "bytes_of_code",
            "languages_pretty", "return fetch_stats"}

LanguagesReturned ==
    pc \in {"return get_languages_from_repos", "bytes_of_code",
            "languages_pretty", "return fetch_stats"}

BytesReturned ==
    pc \in {"return get_bytes_of_code_from_repos", "languages_pretty",
            "return fetch_stats"}

FormatReturned == pc \in {"return format_languages", "return fetch_stats"}

\* the sum of f[j] over the indices in S
RECURSIVE SumOver(_, _)
SumOver(S, f) ==
    IF S = {} THEN 0
    ELSE LET j == CHOOSE j \in S : TRUE IN f[j] + SumOver(S \ {j}, f)

\* the sum of the counts a mapping holds, key by key
TotalOf(d) == SumOver(DictKeys(d), [k \in DictKeys(d) |-> DictGet(d, k)])

\* own and ext split the keys of by_repo by membership in owned, counts kept
Partitions(by_repo, own, ext, owned) ==
    /\ DictKeys(own) \cap DictKeys(ext) = {}
    /\ DictKeys(own) \cup DictKeys(ext) = DictKeys(by_repo)
    /\ \A k \in DictKeys(by_repo) : k \in DictKeys(own) <=> k \in owned
    /\ \A k \in DictKeys(own) : DictGet(own, k) = DictGet(by_repo, k)
    /\ \A k \in DictKeys(ext) : DictGet(ext, k) = DictGet(by_repo, k)
    /\ Len(own) = Cardinality(DictKeys(own))
    /\ Len(ext) = Cardinality(DictKeys(ext))

-----------------------------------------------------------------------------
(* C1: whatever the PR search yields and whatever owned_repo_names is,     *)
(* get_pr_contributions returns own_repos and external_repos with disjoint *)
(* key sets whose union is the key set of by_repo, a key being in          *)
(* own_repos iff it is in owned_repo_names, each key with the count it has *)
(* in by_repo, and total_prs = sum of own_repos + sum of external_repos =  *)
(* the number of search results.                                           *)
C1_PrPartition ==
    PrContributionsReturned =>
        /\ Partitions(pr_contribs.by_repo, pr_contribs.own_repos,
                      pr_contribs.external_repos, owned_repo_names)
        /\ pr_contribs.total_prs =
               TotalOf(pr_contribs.own_repos) + TotalOf(pr_contribs.external_repos)
        /\ pr_contribs.total_prs = Len(pr_search_results)

C1_Witness ==
    /\ pc = "return get_pr_contributions"
    /\ Len(pr_search_results) = 2
    /\ Len(pr_contribs.own_repos) = 1
    /\ Len(pr_contribs.external_repos) = 1
    /\ RepoName(2) \in owned_repo_names \ DictKeys(pr_contribs.by_repo)

-----------------------------------------------------------------------------
(* C2: get_issue_contributions skips every result whose pull_request is    *)
(* not None: total_issues is the number of results with pull_request       *)
(* absent or None, by_repo[r] the number of those in repository r, and     *)
(* own_repos / external_repos partition by_repo by membership in           *)
(* owned_repo_names, total_issues being the sum of both.                   *)
IssuesIn(r) ==
    {j \in DOMAIN issue_search_results :
        /\ issue_search_results[j].pull_request \in {"absent", "None"}
        /\ issue_search_results[j].repo_full_name = r}

C2_IssuesSkipPRs ==
    IssueContributionsReturned =>
        /\ issue_contribs.total_issues =
               Cardinality({j \in DOMAIN issue_search_results :
                   issue_search_results[j].pull_request \in {"absent", "None"}})
        /\ \A r \in SearchNames :
               DictGet(issue_contribs.by_repo, r) = Cardinality(IssuesIn(r))
        /\ DictKeys(issue_contribs.by_repo) = {r \in SearchNames : IssuesIn(r) # {}}
        /\ Partitions(issue_contribs.by_repo, issue_contribs.own_repos,
                      issue_contribs.external_repos, owned_repo_names)
        /\ issue_contribs.total_issues =
               TotalOf(issue_contribs.own_repos)
                   + TotalOf(issue_contribs.external_repos)

C2_Witness ==
    /\ pc = "return get_issue_contributions"
    /\ \E a, b, c \in DOMAIN issue_search_results :
          /\ issue_search_results[a].pull_request = "PullRequest"
          /\ issue_search_results[b].pull_request = "None"
          /\ issue_search_results[c].pull_request = "absent"
    /\ issue_contribs.total_issues = 2
    /\ issue_contribs.own_repos # <<>>

-----------------------------------------------------------------------------
(* C3: get_repos returns, in the order the API yields them, the repos      *)
(* whose visibility is "public"; when exclude_organizations is true or     *)
(* absent none of them is owned by an Organization, and when it is false   *)
(* the organization-owned public repos are kept.                           *)
ExcludesOrganizations ==
    \/ "exclude_organizations" \notin DOMAIN config
    \/ config["exclude_organizations"] = TRUE

\* the indices of the repos of the API's answer that are to be returned
Kept ==
    {j \in DOMAIN api_repos :
        /\ api_repos[j].visibility = "public"
        /\ ExcludesOrganizations => api_repos[j].owner_type # "Organization"}

C3_PublicReposInOrder ==
    ReposReturned =>
        /\ Len(repos) = Cardinality(Kept)
        /\ \A j \in Kept :
               repos[Cardinality({k \in Kept : k <= j})] = api_repos[j]
        /\ \A j \in DOMAIN repos : repos[j].visibility = "public"
        /\ ExcludesOrganizations =>
               \A j \in DOMAIN repos : repos[j].owner_type # "Organization"
        /\ ~ExcludesOrganizations =>
               \A j \in DOMAIN api_repos :
                   api_repos[j].visibility = "public" =>
                       \E k \in DOMAIN repos : repos[k] = api_repos[j]

C3_Witness ==
    /\ pc = "return get_repos"
    /\ "exclude_organizations" \notin DOMAIN config
    /\ Len(api_repos) = 2
    /\ api_repos[1].visibility = "public"
    /\ api_repos[1].owner_type = "Organization"
    /\ api_repos[2].visibility = "public"
    /\ repos = <<api_repos[2]>>

-----------------------------------------------------------------------------
(* C4: get_languages_from_repos maps each language to the sum of its byte  *)
(* counts over exactly the repos that are no forks, are public and whose   *)
(* get_languages call did not raise; a language is a key only if one of    *)
(* those repos reported it.                                                *)
Contributing ==
    {j \in DOMAIN repos :
        /\ ~repos[j].fork
        /\ repos[j].visibility = "public"
        /\ ~repos[j].languages.raises}

ReportedBy(j) == DictKeys(repos[j].languages.value)

C4_LanguagesSummed ==
    LanguagesReturned =>
        /\ DictKeys(languages) = UNION {ReportedBy(j) : j \in Contributing}
        /\ Len(languages) = Cardinality(DictKeys(languages))
        /\ \A lang \in DictKeys(languages) :
               DictGet(languages, lang) =
                   SumOver(Contributing,
                           [j \in Contributing |->
                               DictGet(repos[j].languages.value, lang)])

C4_Witness ==
    /\ pc = "return get_languages_from_repos"
    /\ Len(repos) = 2
    /\ repos[1].fork
    /\ ~repos[1].languages.raises
    /\ "C" \in ReportedBy(1)
    /\ Contributing = {2}
    /\ languages = <<<<"Python", 1>>>>

-----------------------------------------------------------------------------
(* C5: format_languages lists the languages in non-increasing order of     *)
(* byte count, ties in the order of the mapping; all of them when          *)
(* max_languages is -1 or absent, the first min(k, n) of that order when   *)
(* it is k >= 0; it returns "" when nothing is listed and otherwise a      *)
(* newline followed by one line "- <lang>: <bytes> bytes of code" per      *)
(* listed language, the lines separated by newlines.                       *)
PositionOf(item) == CHOOSE j \in DOMAIN languages : languages[j] = item

\* x is listed before y
Before(x, y) ==
    \/ x[2] > y[2]
    \/ x[2] = y[2] /\ PositionOf(x) < PositionOf(y)

Listed == {sorted_lang[j] : j \in DOMAIN sorted_lang}

RECURSIVE Listing(_)
Listing(items) ==
    IF items = <<>> THEN ""
    ELSE "\n- " \o items[1][1] \o ": " \o ToString(items[1][2])
             \o " bytes of code" \o Listing(Tail(items))

C5_LanguagesListed ==
    FormatReturned =>
        /\ Listed \subseteq {languages[j] : j \in DOMAIN languages}
        /\ \A a, b \in DOMAIN sorted_lang :
               a < b => Before(sorted_lang[a], sorted_lang[b])
        /\ \A x \in Listed, j \in DOMAIN languages :
               languages[j] \notin Listed => Before(x, languages[j])
        /\ ("max_languages" \notin DOMAIN config \/ config["max_languages"] = -1)
               => Len(sorted_lang) = Len(languages)
        /\ ("max_languages" \in DOMAIN config /\ config["max_languages"] >= 0)
               => Len(sorted_lang) = Min(config["max_languages"], Len(languages))
        /\ languages_pretty = Listing(sorted_lang)
        /\ sorted_lang = <<>> <=> languages_pretty = ""

C5_Witness ==
    /\ pc = "return format_languages"
    /\ "max_languages" \in DOMAIN config
    /\ config["max_languages"] = 2
    /\ languages = <<<<"C", 1>>, <<"Rust", 2>>, <<"Go", 2>>>>
    /\ languages_pretty = "\n- Rust: 2 bytes of code\n- Go: 2 bytes of code"

-----------------------------------------------------------------------------
(* C6: get_bytes_of_code_from_repos returns the sum, over all the repos    *)
(* whose get_languages call did not raise, forks included, of the repo's   *)
(* byte counts; a repo whose call raises adds 0 and the repos after it     *)
(* still count.                                                            *)
Answering == {j \in DOMAIN repos : ~repos[j].languages.raises}

BytesOf(j) == TotalOf(repos[j].languages.value)

C6_BytesSummed ==
    BytesReturned =>
        bytes_of_code = SumOver(Answering, [j \in Answering |-> BytesOf(j)])

C6_Witness ==
    /\ pc = "return get_bytes_of_code_from_repos"
    /\ Len(repos) = 2
    /\ repos[1].languages.raises
    /\ repos[2].fork
    /\ ~repos[2].languages.raises
    /\ bytes_of_code = 3

-----------------------------------------------------------------------------
(* C7: in fetch_stats the three totals of the own repos are summed only    *)
(* over the repos of get_repos that are no forks and are public (a repo    *)
(* counts up to the first of its calls that raises), total_stars is the    *)
(* sum of stargazers_count over every repo of get_repos, forks included,   *)
(* and owned_repo_names, which classifies the search results, holds the    *)
(* full name of every repo of get_repos, forks included.                   *)
Counted ==
    {j \in DOMAIN repos : ~repos[j].fork /\ repos[j].visibility = "public"}

WithCommits == {j \in Counted : ~repos[j].commits.raises}
WithIssues == {j \in WithCommits : ~repos[j].issues.raises}
WithPulls == {j \in WithIssues : ~repos[j].pulls.raises}

InFetchStats ==
    pc \in {"for repo in repos", "get_commits", "get_issues", "get_pulls"} \cup AfterLoop

C7_OwnRepoTotals ==
    /\ (pc \in AfterLoop) =>
          /\ total_commits_in_own_repos =
                 SumOver(WithCommits, [j \in WithCommits |-> repos[j].commits.value])
          /\ total_issues_in_own_repos =
                 SumOver(WithIssues, [j \in WithIssues |-> repos[j].issues.value])
          /\ total_prs_in_own_repos =
                 SumOver(WithPulls, [j \in WithPulls |-> repos[j].pulls.value])
    /\ (pc \in {"languages_pretty", "return fetch_stats"}) =>
          total_stars =
              SumOver(DOMAIN repos, [j \in DOMAIN repos |-> repos[j].stargazers_count])
    /\ InFetchStats =>
          /\ repos = get_repos(api_repos)
          /\ \A j \in DOMAIN repos : repos[j].full_name \in owned_repo_names
          /\ \A n \in owned_repo_names :
                 \E j \in DOMAIN repos : repos[j].full_name = n
    /\ (pc = "return fetch_stats") =>
          /\ DictKeys(pr_contribs.own_repos) =
                 DictKeys(pr_contribs.by_repo) \cap owned_repo_names
          /\ DictKeys(issue_contribs.own_repos) =
                 DictKeys(issue_contribs.by_repo) \cap owned_repo_names

C7_Witness ==
    /\ pc = "return fetch_stats"
    /\ Len(repos) = 2
    /\ repos[1].fork
    /\ ~repos[2].fork
    /\ total_commits_in_own_repos = 1
    /\ total_stars = 3
    /\ DictKeys(pr_contribs.own_repos) = {repos[1].full_name}
    /\ ExternalName \in DictKeys(pr_contribs.external_repos)

-----------------------------------------------------------------------------
(* C8: whatever the per-repo calls get_commits, get_issues, get_pulls and  *)
(* get_languages raise, fetch_stats does not let the exception out: it     *)
(* goes on with the next repo, then runs the PR search, the issue search,  *)
(* the language aggregation and the byte count in that order and returns   *)
(* its report, unless the user lookup, get_repos or a search raised.       *)
PerRepoCalls == {"get_commits", "get_issues", "get_pulls"}

\* the order of the statements of fetch_stats
FetchOrder ==
    /\ (pc = "for repo in repos") =>
          \/ pc' = "pr_contribs" /\ i > Len(repos)
          \/ pc' = pc /\ i' = i + 1 /\ i <= Len(repos)
          \/ pc' = "get_commits" /\ i' = i /\ i <= Len(repos)
    /\ (pc \in PerRepoCalls) =>
          \/ pc' = "for repo in repos" /\ i' = i + 1
          \/ pc' \in PerRepoCalls /\ i' = i
    /\ (pc = "pr_contribs") => pc' \in {"issue_contribs", "raised"}
    /\ (pc = "issue_contribs") => pc' \in {"languages", "raised"}
    /\ (pc = "languages") => pc' = "bytes_of_code"
    /\ (pc = "bytes_of_code") => pc' = "languages_pretty"
    /\ (pc = "languages_pretty") => pc' = "return fetch_stats"

C8_ExceptionsContained ==
    /\ [](pc = "raised" => exc \in {"get_user", "get_repos", "search_issues"})
    /\ [][FetchOrder]_vars
    /\ (pc = "call fetch_stats") ~> (pc \in {"return fetch_stats", "raised"})

C8_Witness ==
    /\ pc = "return fetch_stats"
    /\ Len(repos) = 2
    /\ repos[1].commits.raises
    /\ repos[2].languages.raises
    /\ total_commits_in_own_repos = 1
    /\ bytes_of_code = 3

====
